---- MODULE Spec2Model ----
(***************************************************************************)
(* A model of tts-to-obsidian-markdown: the text enhancement functions of  *)
(* enhancement/processor.py, the note writer of                            *)
(* obsidian/note_generator.py, the recorder, the duration helper and the   *)
(* pipeline of main.py.                                                    *)
(*                                                                         *)
(* Text is a sequence of one-character strings.  A note body is a sequence *)
(* of atoms (strings the model never splits: a word, a punctuation mark, a *)
(* line break).  Floats that are quotients of counts are kept as           *)
(* [num, den] pairs.                                                       *)
(*                                                                         *)
(* Seven specifications share the module:                                  *)
(*   SpecText    the pure text functions applied to bounded inputs         *)
(*   Spec        create_note called sequentially against a vault           *)
(*   SpecConc    two create_note calls racing on the same note file        *)
(*   SpecDur     format_duration of utils/helpers.py                       *)
(*   SpecOllama  ensure_ollama_ready of main.py under a CLI command        *)
(*   SpecRec     the AudioRecorder of audio/recorder.py                    *)
(*   SpecProc    one process_audio call of main.py                         *)
(***************************************************************************)
EXTENDS Integers, Sequences, FiniteSets, TLC

VARIABLES
    \* ---- text functions (SpecText)
    text,           \* the input string
    op,             \* which function was applied last: "none" before any
    cleaned,        \* result of _clean_text
    sentences,      \* the sentences _clean_text joined (after capitalisation)
    emotions,       \* result of _detect_emotion
    enhanced,       \* result of enhance
    \* ---- the vault (Spec)
    now,            \* datetime.now(): the calendar date
    clock,          \* time.time() in milliseconds
    diary,          \* the diary folder: file name -> body
    attachments,    \* attachments/audio: file name -> content
    last,           \* the most recent create_note call and its outcome
    ncalls,         \* create_note calls made on the current day
    ndays,          \* days elapsed since the start
    diary_dir,      \* whether the diary folder exists on disk
    source_audio,   \* the audio file outside the vault that recording_path names
    \* ---- two racing writers (SpecConc)
    pc,             \* per call: "start", "opened", "closed"
    cbody,          \* per call: the rendered content it writes
    note_file,      \* the content of today's note file, or Absent
    \* ---- format_duration (SpecDur)
    seconds,        \* the argument, a float kept as [num, den]
    formatted,      \* the string returned, "" before the call
    \* ---- ensure_ollama_ready (SpecOllama)
    command,        \* the CLI command that was invoked
    server_up,      \* whether GET /api/tags answers with status 200
    depth,          \* ensure_ollama_ready frames on the Python stack
    opc,            \* position of the command
    \* ---- AudioRecorder (SpecRec)
    is_recording,   \* self.recording
    recording_thread, \* "none", "running" or "joined"
    audio_queue,    \* chunks waiting in self.audio_queue
    rec_last,       \* the most recent recorder call and its outcome
    nrec,           \* recorder calls made
    \* ---- process_audio (SpecProc)
    ppc,            \* position inside process_audio
    delete_flag,    \* config["privacy"]["delete_audio_after_processing"]
    stt_calls,      \* calls of the speech-to-text engine made
    failure         \* the step of process_audio that raised, "none" so far

textVars == <<text, op, cleaned, sentences, emotions, enhanced>>
vaultVars == <<now, clock, diary, attachments, last, ncalls, ndays, diary_dir, source_audio>>
concVars == <<pc, cbody, note_file>>
durVars == <<seconds, formatted>>
ollamaVars == <<command, server_up, depth, opc>>
recVars == <<is_recording, recording_thread, audio_queue, rec_last, nrec>>
procVars == <<ppc, delete_flag, stt_calls, failure>>
restVars == <<durVars, ollamaVars, recVars, procVars>>
vars == <<textVars, vaultVars, concVars, restVars>>

-----------------------------------------------------------------------------
(* Bounds of the model *)

\* longest text built from single characters
MaxChars == 5
\* most word pieces in a text built from words
MaxWords == 4
\* most sentence pieces in a text built from sentences
MaxSents == 5

-----------------------------------------------------------------------------
(* Characters *)

LowerLetters ==
    <<"a","b","c","d","e","f","g","h","i","j","k","l","m",
      "n","o","p","q","r","s","t","u","v","w","x","y","z">>
UpperLetters ==
    <<"A","B","C","D","E","F","G","H","I","J","K","L","M",
      "N","O","P","Q","R","S","T","U","V","W","X","Y","Z">>

\* str.upper() on one character
Upper(c) ==
    IF \E i \in 1..26 : LowerLetters[i] = c
    THEN UpperLetters[CHOOSE i \in 1..26 : LowerLetters[i] = c]
    ELSE c

\* str.lower() on one character
LowerChar(c) ==
    IF \E i \in 1..26 : UpperLetters[i] = c
    THEN LowerLetters[CHOOSE i \in 1..26 : UpperLetters[i] = c]
    ELSE c

\* str.lower()
Lower(s) == [i \in 1..Len(s) |-> LowerChar(s[i])]

\* the regex class \s, and str.split()'s separators
IsSpace(c) == c \in {" ", "\t", "\n"}

\* the regex class [.,!?]
IsPunct(c) == c \in {".", ",", "!", "?"}

\* index of the first non-whitespace character of s at or after i, Len(s)+1 if none
RECURSIVE SkipSpace(_, _)
SkipSpace(s, i) ==
    IF i > Len(s) THEN Len(s) + 1
    ELSE IF IsSpace(s[i]) THEN SkipSpace(s, i + 1) ELSE i

\* index of the last non-whitespace character of s, 0 if none: len(s.rstrip())
RECURSIVE RStripLen(_)
RStripLen(s) ==
    IF s = <<>> THEN 0
    ELSE IF IsSpace(s[Len(s)]) THEN RStripLen(SubSeq(s, 1, Len(s) - 1)) ELSE Len(s)

\* str.strip()
Strip(s) == SubSeq(s, SkipSpace(s, 1), RStripLen(s))

\* s from index i on
From(s, i) == SubSeq(s, i, Len(s))

-----------------------------------------------------------------------------
(* _clean_text, processor.py 36-50 *)

\* re.sub(r"\s+", " ", text): every maximal whitespace run becomes one space
RECURSIVE CollapseWhitespace(_)
CollapseWhitespace(s) ==
    IF s = <<>> THEN <<>>
    ELSE IF IsSpace(s[1])
         THEN <<" ">> \o CollapseWhitespace(From(s, SkipSpace(s, 1)))
         ELSE <<s[1]>> \o CollapseWhitespace(Tail(s))

\* the substitution of line 42 left out
RemoveSpaceBeforePunctSkipped(s) == s

\* re.sub(r"\s+([.,!?])", r"\1", text): a whitespace run right before a
\* punctuation mark is removed
RECURSIVE RemoveSpaceBeforePunct(_)
RemoveSpaceBeforePunct(s) ==
    IF s = <<>> THEN <<>>
    ELSE IF IsSpace(s[1])
         THEN LET j == SkipSpace(s, 1)
              IN  IF j <= Len(s) /\ IsPunct(s[j])
                  THEN RemoveSpaceBeforePunct(From(s, j))
                  ELSE SubSeq(s, 1, j - 1) \o RemoveSpaceBeforePunct(From(s, j))
         ELSE <<s[1]>> \o RemoveSpaceBeforePunct(Tail(s))

\* re.sub(r"([.,!?])\s+", r"\1 ", text): a whitespace run right after a
\* punctuation mark becomes one space; nothing is inserted where there is none
RECURSIVE OneSpaceAfterPunct(_)
OneSpaceAfterPunct(s) ==
    IF s = <<>> THEN <<>>
    ELSE IF IsPunct(s[1]) /\ Len(s) > 1 /\ IsSpace(s[2])
         THEN <<s[1], " ">> \o OneSpaceAfterPunct(From(s, SkipSpace(s, 2)))
         ELSE <<s[1]>> \o OneSpaceAfterPunct(Tail(s))

\* lines 39-43: the three substitutions and the strip
FixPunctuation(s) ==
    OneSpaceAfterPunct(RemoveSpaceBeforePunct(Strip(CollapseWhitespace(s))))

(* nltk's sent_tokenize (Punkt).  A sentence may end at a character of    *)
(* SentEndChars that is followed by whitespace and a further token, or by *)
(* another non-word character; whether it does depends on the trained     *)
(* model (abbreviations, capitalisation of the next token), so the model  *)
(* leaves it open: any subset of the candidates may be a boundary.  The   *)
(* whitespace between two sentences belongs to neither, the last sentence *)
(* has no trailing whitespace, and empty sentences are dropped.           *)
SentEndChars == {".", "?", "!"}
NonWordChars == {"?", "!", ")", "\"", ";", "}", "]", "*", ":", "@", "'", "(", "{", "["}

SentBreakCandidates(s) ==
    { i \in 1..(Len(s) - 1) :
        /\ s[i] \in SentEndChars
        /\ \/ s[i + 1] \in NonWordChars
           \/ IsSpace(s[i + 1]) /\ SkipSpace(s, i + 1) <= Len(s) }

Min(S) == CHOOSE m \in S : \A n \in S : m <= n

\* the sentences of s when it breaks after the indices in cuts, from index from on
RECURSIVE SentTokenize(_, _, _)
SentTokenize(s, cuts, from) ==
    LET ahead == { c \in cuts : c >= from } IN
    IF ahead /= {}
    THEN LET i == Min(ahead)
             nxt == IF IsSpace(s[i + 1]) THEN SkipSpace(s, i + 1) ELSE i + 1
         IN  <<SubSeq(s, from, i)>> \o SentTokenize(s, cuts, nxt)
    ELSE IF RStripLen(s) >= from THEN <<SubSeq(s, from, RStripLen(s))>> ELSE <<>>

\* line 47: s[0].upper() + s[1:]
Capitalize(s) == <<Upper(s[1])>> \o Tail(s)

\* " ".join(parts)
RECURSIVE JoinSpace(_)
JoinSpace(parts) ==
    IF parts = <<>> THEN <<>>
    ELSE IF Len(parts) = 1 THEN parts[1]
    ELSE parts[1] \o <<" ">> \o JoinSpace(Tail(parts))

\* only the first character of the text capitalised
CapitalizeFirstOnly(sents) ==
    [i \in 1..Len(sents) |-> IF i = 1 THEN Capitalize(sents[i]) ELSE sents[i]]

\* line 47 over the sentence list
CapitalizeAll(sents) == [i \in 1..Len(sents) |-> Capitalize(sents[i])]

\* lines 46-47: the capitalised sentences of the punctuation-fixed text
CleanSentences(s, cuts) == CapitalizeAll(SentTokenize(FixPunctuation(s), cuts, 1))

\* _clean_text(text), with the tokenizer breaking at cuts
CleanText(s, cuts) == JoinSpace(CleanSentences(s, cuts))

-----------------------------------------------------------------------------
(* _detect_emotion, processor.py 83-103 *)

positive_words ==
    { <<"h","a","p","p","y">>, <<"j","o","y">>, <<"e","x","c","i","t","e","d">>,
      <<"g","r","e","a","t">>, <<"w","o","n","d","e","r","f","u","l">>,
      <<"l","o","v","e">> }
negative_words ==
    { <<"s","a","d">>, <<"a","n","g","r","y">>, <<"u","p","s","e","t">>,
      <<"t","e","r","r","i","b","l","e">>, <<"h","a","t","e">>,
      <<"a","w","f","u","l">> }

\* index one past the end of the word of s that starts at i
RECURSIVE WordEnd(_, _)
WordEnd(s, i) ==
    IF i > Len(s) \/ IsSpace(s[i]) THEN i ELSE WordEnd(s, i + 1)

\* str.split(): the maximal runs of non-whitespace characters
RECURSIVE Split(_)
Split(s) ==
    LET i == SkipSpace(s, 1) IN
    IF i > Len(s) THEN <<>>
    ELSE LET j == WordEnd(s, i)
         IN  <<SubSeq(s, i, j - 1)>> \o Split(From(s, j))

\* sum(1 for word in words if word in lexicon)
CountIn(words, lexicon) == Cardinality({ i \in 1..Len(words) : words[i] \in lexicon })

\* a float that is the quotient of two counts
Ratio(n, d) == [num |-> n, den |-> d]

\* neutral computed without taking the negative words off
DetectEmotionNeutralOff(s) ==
    LET words == Split(Lower(s))
        positive_count == CountIn(words, positive_words)
        negative_count == CountIn(words, negative_words)
        total == Len(words)
    IN  IF total = 0
        THEN [positive |-> Ratio(0, 1), negative |-> Ratio(0, 1), neutral |-> Ratio(1, 1)]
        ELSE [positive |-> Ratio(positive_count, total),
              negative |-> Ratio(negative_count, total),
              neutral  |-> Ratio(total - positive_count, total)]

\* the words counted without text.lower()
DetectEmotionCaseSensitive(s) ==
    LET words == Split(s)
        positive_count == CountIn(words, positive_words)
        negative_count == CountIn(words, negative_words)
        total == Len(words)
    IN  IF total = 0
        THEN [positive |-> Ratio(0, 1), negative |-> Ratio(0, 1), neutral |-> Ratio(1, 1)]
        ELSE [positive |-> Ratio(positive_count, total),
              negative |-> Ratio(negative_count, total),
              neutral  |-> Ratio(total - positive_count - negative_count, total)]

DetectEmotion(s) ==
    LET words == Split(Lower(s))
        positive_count == CountIn(words, positive_words)
        negative_count == CountIn(words, negative_words)
        total == Len(words)
    IN  IF total = 0
        THEN [positive |-> Ratio(0, 1), negative |-> Ratio(0, 1), neutral |-> Ratio(1, 1)]
        ELSE [positive |-> Ratio(positive_count, total),
              negative |-> Ratio(negative_count, total),
              neutral  |-> Ratio(total - positive_count - negative_count, total)]

-----------------------------------------------------------------------------
(* enhance, processor.py 105-155 *)

\* the loop with the test of line 136 off by one: len(current_paragraph) > 3
RECURSIVE ParagraphsLate(_, _)
ParagraphsLate(sents, current_paragraph) ==
    IF sents = <<>>
    THEN IF current_paragraph /= <<>> THEN <<JoinSpace(current_paragraph)>> ELSE <<>>
    ELSE LET cur == Append(current_paragraph, sents[1])
         IN  IF Len(cur) > 3
             THEN <<JoinSpace(cur)>> \o ParagraphsLate(Tail(sents), <<>>)
             ELSE ParagraphsLate(Tail(sents), cur)

\* lines 131-141: the loop over the sentences, with its accumulator
RECURSIVE Paragraphs(_, _)
Paragraphs(sents, current_paragraph) ==
    IF sents = <<>>
    THEN IF current_paragraph /= <<>> THEN <<JoinSpace(current_paragraph)>> ELSE <<>>
    ELSE LET cur == Append(current_paragraph, sents[1])
         IN  IF Len(cur) >= 3
             THEN <<JoinSpace(cur)>> \o Paragraphs(Tail(sents), <<>>)
             ELSE Paragraphs(Tail(sents), cur)

\* enhance(transcription): cuts1 are the tokenizer's breaks inside _clean_text,
\* cuts2 its breaks on the cleaned text (line 130).  dates and topics come
\* from spaCy and are left out.
Enhance(s, cuts1, cuts2) ==
    LET cleaned_text == CleanText(s, cuts1)
        sents == SentTokenize(cleaned_text, cuts2, 1)
        paragraphs == Paragraphs(sents, <<>>)
    IN  [original_text |-> s,
         cleaned_text |-> cleaned_text,
         sentences |-> sents,
         paragraphs |-> paragraphs,
         emotions |-> DetectEmotion(cleaned_text),
         metadata |-> [word_count |-> Len(Split(cleaned_text)),
                       sentence_count |-> Len(sents),
                       paragraph_count |-> Len(paragraphs)]]

-----------------------------------------------------------------------------
(* The inputs of the text functions *)

\* the flattening of a sequence of character sequences
RECURSIVE Concat(_)
Concat(pieces) ==
    IF pieces = <<>> THEN <<>> ELSE pieces[1] \o Concat(Tail(pieces))

\* every sequence of at most n elements of S
SeqUpTo(S, n) == UNION { [1..k -> S] : k \in 0..n }

\* texts over a small alphabet: a letter, two kinds of whitespace, punctuation
CleanAlphabet == {"h", " ", "\t", ".", ",", "!"}
CharTexts == SeqUpTo(CleanAlphabet, MaxChars)

\* texts made of words in and out of the lexicons, in either case
WordPieces ==
    { <<"h","a","p","p","y">>, <<"S","a","d">>, <<"o","k">>, <<" ">>, <<".">> }
WordTexts == { Concat(ps) : ps \in SeqUpTo(WordPieces, MaxWords) }

\* texts made of whole sentences
SentPieces == { <<"o","k","."," ">>, <<"s","a","d","!"," ">> }
SentTexts == { Concat(ps) : ps \in SeqUpTo(SentPieces, MaxSents) }

\* the inputs of tests/test_basic.py: "  hello,  world!  " and "I am happy today"
TestCleanText ==
    <<" "," ","h","e","l","l","o",","," "," ","w","o","r","l","d","!"," "," ">>
TestCleanResult ==
    <<"H","e","l","l","o",","," ","w","o","r","l","d","!">>
TestEmotionText ==
    <<"I"," ","a","m"," ","h","a","p","p","y"," ","t","o","d","a","y">>

TextInputs == CharTexts \cup WordTexts \cup SentTexts \cup {TestCleanText, TestEmotionText}

-----------------------------------------------------------------------------
(* SpecText: one of the text functions is applied to an input *)

NoEmotions == [positive |-> Ratio(0, 1), negative |-> Ratio(0, 1), neutral |-> Ratio(0, 1)]
NoEnhanced == Enhance(<<>>, {}, {})

TextIdle ==
    /\ text = <<>>
    /\ op = "idle"
    /\ cleaned = <<>>
    /\ sentences = <<>>
    /\ emotions = NoEmotions
    /\ enhanced = NoEnhanced

TextInit ==
    /\ text \in TextInputs
    /\ op = "none"
    /\ cleaned = <<>>
    /\ sentences = <<>>
    /\ emotions = NoEmotions
    /\ enhanced = NoEnhanced

\* enhancer._clean_text(text)
CallCleanText ==
    /\ op = "none"
    /\ \E cuts \in SUBSET SentBreakCandidates(FixPunctuation(text)) :
          /\ cleaned' = CleanText(text, cuts)
          /\ sentences' = CleanSentences(text, cuts)
    /\ op' = "clean"
    /\ UNCHANGED <<text, emotions, enhanced, vaultVars, concVars, restVars>>

\* enhancer._detect_emotion(text)
CallDetectEmotion ==
    /\ op = "none"
    /\ emotions' = DetectEmotion(text)
    /\ op' = "emotion"
    /\ UNCHANGED <<text, cleaned, sentences, enhanced, vaultVars, concVars, restVars>>

\* enhancer.enhance(text)
CallEnhance ==
    /\ op = "none"
    /\ \E cuts1 \in SUBSET SentBreakCandidates(FixPunctuation(text)) :
          \E cuts2 \in SUBSET SentBreakCandidates(CleanText(text, cuts1)) :
             enhanced' = Enhance(text, cuts1, cuts2)
    /\ op' = "enhance"
    /\ UNCHANGED <<text, cleaned, sentences, emotions, vaultVars, concVars, restVars>>

-----------------------------------------------------------------------------
(* Calendar dates: datetime *)

IsLeap(y) == (y % 4 = 0 /\ y % 100 /= 0) \/ y % 400 = 0

DaysInMonth(y, m) ==
    IF m = 2 THEN (IF IsLeap(y) THEN 29 ELSE 28)
    ELSE IF m \in {4, 6, 9, 11} THEN 30 ELSE 31

Date(y, m, d) == [year |-> y, month |-> m, day |-> d]

\* datetime.replace(day=k) raises ValueError unless k is a day of the month
ReplaceDayValid(d, k) == k >= 1 /\ k <= DaysInMonth(d.year, d.month)
ReplaceDay(d, k) == [d EXCEPT !.day = k]

\* two digits, zero padded
Pad2(n) == IF n < 10 THEN "0" \o ToString(n) ELSE ToString(n)

\* strftime("%Y-%m-%d")
StrfDate(d) == ToString(d.year) \o "-" \o Pad2(d.month) \o "-" \o Pad2(d.day)

\* the note file of a date: f"{date_str}.md"
NoteName(d) == StrfDate(d) \o ".md"

\* the day after d: the wall clock passing midnight
NextDate(d) ==
    IF d.day < DaysInMonth(d.year, d.month) THEN Date(d.year, d.month, d.day + 1)
    ELSE IF d.month < 12 THEN Date(d.year, d.month + 1, 1)
    ELSE Date(d.year + 1, 1, 1)

-----------------------------------------------------------------------------
(* The note template and its rendering, note_generator.py 113-159 *)

Lit(s) == <<"lit", s>>
Field(s) == <<"field", s>>

\* the built-in template of lines 118-138, one atom per piece; every "#" is
\* an atom of its own
DefaultTemplate ==
    << Lit("\n"), Lit("#"), Lit(" Diary Entry - "), Field("date"), Lit("\n"),
       Lit("\n"), Lit("#"), Lit("#"), Lit(" Metadata"), Lit("\n"),
       Lit("- Time: "), Field("time"), Lit("\n"),
       Lit("- Duration: "), Field("duration"), Lit("\n"),
       Lit("- Mood: "), Field("mood"), Lit("\n"),
       Lit("- Topics: "), Field("topics"), Lit("\n"),
       Lit("- Word Count: "), Field("word_count"), Lit("\n"),
       Lit("- Weather: "), Field("weather"), Lit("\n"),
       Lit("- Location: "), Field("location"), Lit("\n"),
       Lit("\n"), Lit("#"), Lit("#"), Lit(" Content"), Lit("\n"),
       Field("content"), Lit("\n"),
       Lit("\n"), Lit("#"), Lit("#"), Lit(" Related Entries"), Lit("\n"),
       Field("related_entries"), Lit("\n"),
       Lit("\n"), Lit("#"), Lit("#"), Lit(" Audio Recording"), Lit("\n"),
       Field("audio_link"), Lit("\n") >>

\* template.format(**fields): every field is a sequence of atoms
Format(template, fields) ==
    Concat([i \in 1..Len(template) |->
              IF template[i][1] = "lit" THEN <<template[i][2]>>
              ELSE fields[template[i][2]]])

\* sep.join(parts) over atoms
RECURSIVE JoinAtoms(_, _)
JoinAtoms(parts, sep) ==
    IF parts = <<>> THEN <<>>
    ELSE IF Len(parts) = 1 THEN <<parts[1]>>
    ELSE <<parts[1], sep>> \o JoinAtoms(Tail(parts), sep)

\* dict.get(key, default)
Get(e, key, default) == IF key \in DOMAIN e THEN e[key] ELSE default

\* _get_weather and _get_location (the degree sign of the weather string is
\* left out)
GetWeather == "Sunny, 72F"
GetLocation == "Home Office"

\* lines 147-159: the content of the note
RenderNote(date, time_str, entry, related_entries, audio_link) ==
    Format(DefaultTemplate,
           [date |-> <<StrfDate(date)>>,
            time |-> <<time_str>>,
            duration |-> <<IF "duration" \in DOMAIN entry
                           THEN ToString(entry.duration) ELSE "Unknown">>,
            mood |-> <<Get(entry, "mood", "Neutral")>>,
            topics |-> JoinAtoms(Get(entry, "topics", <<>>), ", "),
            word_count |-> <<ToString(Get(entry, "word_count", 0))>>,
            content |-> Get(entry, "text", <<>>),
            weather |-> <<GetWeather>>,
            location |-> <<GetLocation>>,
            related_entries |-> related_entries,
            audio_link |-> audio_link])

-----------------------------------------------------------------------------
(* _get_related_entries, note_generator.py 48-67 *)

\* line 62 raises ValueError at the first i in 1..7 with day - i out of range
RelatedRaises(current_date) ==
    \E i \in 1..7 : ~ReplaceDayValid(current_date, current_date.day - i)

\* the dates of lines 61-65 whose note exists, nearest first
RECURSIVE RelatedFrom(_, _, _)
RelatedFrom(current_date, files, i) ==
    IF i > 7 THEN <<>>
    ELSE LET check_date == ReplaceDay(current_date, current_date.day - i)
         IN  (IF NoteName(check_date) \in files THEN <<check_date>> ELSE <<>>)
             \o RelatedFrom(current_date, files, i + 1)

\* one line per entry, "- [[YYYY-MM-DD]]", joined by line breaks; line 67
RECURSIVE RelatedLines(_)
RelatedLines(dates) ==
    IF dates = <<>> THEN <<>>
    ELSE <<"- ", "[[", StrfDate(dates[1]), "]]">>
         \o (IF Len(dates) > 1 THEN <<"\n">> ELSE <<>>)
         \o RelatedLines(Tail(dates))

RelatedBlock(dates) ==
    IF dates = <<>> THEN <<"No recent entries">> ELSE RelatedLines(dates)

\* the return value of _get_related_entries when it does not raise
GetRelatedEntries(current_date, files) ==
    RelatedBlock(RelatedFrom(current_date, files, 1))

-----------------------------------------------------------------------------
(* _copy_audio_file, note_generator.py 69-91 *)

\* f"diary_{epoch}{recording_path.suffix}"
AudioName(epoch, recording) == "diary_" \o ToString(epoch) \o recording.suffix

\* f"![[{new_filename}]]"
AudioLink(new_filename) == <<"![[", new_filename, "]]">>

\* a write that leaves the directory holding the written file alone
WriteFileAlone(dir, name, content) ==
    [n \in {name} |-> content]

\* a file system directory with one file written or overwritten
WriteFile(dir, name, content) ==
    [n \in DOMAIN dir \cup {name} |-> IF n = name THEN content ELSE dir[n]]

-----------------------------------------------------------------------------
(* Spec: create_note called again and again against one vault *)

\* most create_note calls in a run
MaxCalls == 2
\* most midnights passed in a run
MaxDays == 1

\* the entry of tests/test_basic.py (no duration, mood or word_count key at the
\* top level), an entry as process_audio builds it (main.py 141-147), and one
\* whose text holds a line that reads like a heading of the template
Entries ==
    { [text |-> <<"Test", " ", "diary", " ", "entry">>,
       topics |-> <<"test">>],
      [text |-> <<"Went", " ", "home", ".">>,
       duration |-> 12,
       mood |-> "Neutral",
       topics |-> <<"work", "home">>,
       word_count |-> 2],
      [text |-> <<"Plan", "\n", "\n", "#", "#", " Related Entries", "\n", "none">>,
       duration |-> 3,
       mood |-> "Neutral",
       topics |-> <<"plan">>,
       word_count |-> 5] }

\* recording_path: None, or a file with a suffix
None == [suffix |-> "", content |-> ""]
Recordings == { [suffix |-> ".wav", content |-> "pcm"] }

\* the file recording_path names: gone, or present with the bytes the
\* recorder wrote
Missing == [exists |-> FALSE, content |-> ""]
SourceFile == [exists |-> TRUE, content |-> "pcm"]

\* now.strftime("%H:%M")
Times == {"09:15", "21:40"}

\* the day i days before d
RECURSIVE MinusDays(_, _)
MinusDays(d, i) ==
    IF i = 0 THEN d
    ELSE MinusDays(IF d.day > 1 THEN Date(d.year, d.month, d.day - 1)
                   ELSE IF d.month > 1
                        THEN Date(d.year, d.month - 1, DaysInMonth(d.year, d.month - 1))
                        ELSE Date(d.year - 1, 12, 31),
                   i - 1)

\* the days the runs start on, and the notes the vault may hold by then (days
\* before the start day), each with a body written earlier
StartDates == { Date(2024, 3, 1), Date(2023, 12, 31), Date(2024, 3, 7), Date(2024, 3, 15) }
EarlierNotes == { {}, {1, 3}, {2}, {7, 8} }
EarlierBody == <<"an earlier note">>

NoCall ==
    [called |-> FALSE, date |-> Date(1970, 1, 1), time |-> "", entry |-> [text |-> <<>>],
     recording |-> None, copy_failed |-> FALSE, files_before |-> {},
     dir_before |-> FALSE,
     audio_link |-> <<>>, result |-> "none"]

VaultIdle ==
    /\ now = Date(1970, 1, 1)
    /\ clock = 0
    /\ diary = <<>>
    /\ attachments = <<>>
    /\ last = NoCall
    /\ ncalls = 0
    /\ ndays = 0
    /\ diary_dir = FALSE
    /\ source_audio = Missing

\* __init__ (lines 28-38) has made the two folders; the diary folder may hold
\* notes of earlier days
VaultInit ==
    /\ now \in StartDates
    /\ clock = 0
    /\ \E offsets \in EarlierNotes :
          diary = [n \in { NoteName(MinusDays(now, i)) : i \in offsets } |-> EarlierBody]
    /\ attachments = <<>>
    /\ last = NoCall
    /\ ncalls = 0
    /\ ndays = 0
    /\ diary_dir = TRUE
    /\ source_audio = SourceFile

\* the record of a call
Call(time_str, entry, recording, copy_failed, audio_link, result) ==
    [called |-> TRUE, date |-> now, time |-> time_str, entry |-> entry,
     recording |-> recording, copy_failed |-> copy_failed,
     files_before |-> DOMAIN diary, dir_before |-> diary_dir,
     audio_link |-> audio_link, result |-> result]

\* create_note, lines 108-166: line 143 raises ValueError before anything is
\* written
CreateNoteRelatedRaises(time_str, entry, recording) ==
    /\ RelatedRaises(now)
    /\ last' = Call(time_str, entry, recording, FALSE, <<>>, "ValueError")
    /\ UNCHANGED <<clock, diary, attachments>>

\* create_note: shutil.copy2 (line 88) raises (always when the source file
\* is gone) and the exception leaves create_note through line 144; nothing
\* is written
CreateNoteCopyRaises(time_str, entry, recording) ==
    /\ ~RelatedRaises(now)
    /\ recording /= None
    /\ \E epoch \in {clock, clock + 1} :
          clock' = epoch
    /\ last' = Call(time_str, entry, recording, TRUE, <<>>, "OSError")
    /\ UNCHANGED <<diary, attachments>>

\* create_note: the audio is copied (line 144) and the note rendered, then
\* open(note_path, "w") (line 163) raises FileNotFoundError because the diary
\* folder, made only by __init__ (line 34), is gone
CreateNoteOpenRaises(time_str, entry, recording) ==
    /\ ~RelatedRaises(now)
    /\ ~diary_dir
    /\ recording /= None => source_audio.exists
    /\ \E epoch \in {clock, clock + 1} :
          LET new_filename == AudioName(epoch, recording)
              audio_link == IF recording /= None THEN AudioLink(new_filename)
                            ELSE <<"No audio recording">>
          IN  /\ recording = None => epoch = clock
              /\ clock' = epoch
              /\ attachments' = IF recording /= None
                                THEN WriteFile(attachments, new_filename, source_audio.content)
                                ELSE attachments
              /\ last' = Call(time_str, entry, recording, FALSE, audio_link, "FileNotFoundError")
    /\ UNCHANGED diary

\* create_note: the note is rendered and written over whatever the file held
CreateNoteWrites(time_str, entry, recording) ==
    /\ ~RelatedRaises(now)
    /\ diary_dir
    /\ recording /= None => source_audio.exists
    /\ \E epoch \in {clock, clock + 1} :
          LET related_entries == GetRelatedEntries(now, DOMAIN diary)
              new_filename == AudioName(epoch, recording)
              audio_link == IF recording /= None THEN AudioLink(new_filename)
                            ELSE <<"No audio recording">>
              content == RenderNote(now, time_str, entry, related_entries, audio_link)
          IN  /\ recording = None => epoch = clock
              /\ clock' = epoch
              /\ attachments' = IF recording /= None
                                THEN WriteFile(attachments, new_filename, source_audio.content)
                                ELSE attachments
              /\ diary' = WriteFile(diary, NoteName(now), content)
              /\ last' = Call(time_str, entry, recording, FALSE, audio_link, "ok")

CreateNote ==
    /\ ncalls < MaxCalls
    /\ ncalls' = ncalls + 1
    /\ \E time_str \in Times, entry \in Entries, recording \in Recordings \cup {None} :
          \/ CreateNoteRelatedRaises(time_str, entry, recording)
          \/ CreateNoteCopyRaises(time_str, entry, recording)
          \/ CreateNoteOpenRaises(time_str, entry, recording)
          \/ CreateNoteWrites(time_str, entry, recording)
    /\ UNCHANGED <<now, ndays, diary_dir, source_audio, textVars, concVars, restVars>>

\* midnight passes
NextDay ==
    /\ ndays < MaxDays
    /\ ndays' = ndays + 1
    /\ now' = NextDate(now)
    /\ UNCHANGED <<clock, diary, attachments, last, ncalls, diary_dir, source_audio, textVars, concVars, restVars>>

\* the diary folder is removed from outside after the generator was built
RemoveDiaryFolder ==
    /\ diary_dir
    /\ diary_dir' = FALSE
    /\ diary' = <<>>
    /\ UNCHANGED <<now, clock, attachments, last, ncalls, ndays, source_audio,
                   textVars, concVars, restVars>>

-----------------------------------------------------------------------------
(* SpecConc: two create_note calls for the same day at the same time.     *)
(* Lines 163-164: open(note_path, "w") creates or truncates the file and  *)
(* leaves the position at 0; the content is buffered and reaches the file *)
(* in one write at that position when the with block closes the file.     *)

Calls == {1, 2}
ConcDate == Date(2024, 3, 15)
Absent == [exists |-> FALSE, content |-> <<>>]

ConcIdle ==
    /\ pc = [p \in Calls |-> "idle"]
    /\ cbody = [p \in Calls |-> <<>>]
    /\ note_file = Absent

\* both calls have rendered their content (lines 108-159); the vault holds no
\* earlier note and no recording is given
ConcInit ==
    /\ pc = [p \in Calls |-> "start"]
    /\ \E e \in [Calls -> Entries], t \in [Calls -> Times] :
          cbody = [p \in Calls |->
                     RenderNote(ConcDate, t[p], e[p], GetRelatedEntries(ConcDate, {}),
                                <<"No audio recording">>)]
    /\ note_file = Absent

\* write(2) of data at position 0 of a file that holds old
WriteAtStart(old, data) == data \o SubSeq(old, Len(data) + 1, Len(old))

\* line 163: open(note_path, "w")
ConcOpen(p) ==
    /\ pc[p] = "start"
    /\ note_file' = [exists |-> TRUE, content |-> <<>>]
    /\ pc' = [pc EXCEPT ![p] = "opened"]
    /\ UNCHANGED <<cbody, textVars, vaultVars, restVars>>

\* lines 164-165: f.write(content) and the close that flushes it
ConcWrite(p) ==
    /\ pc[p] = "opened"
    /\ note_file' = [exists |-> TRUE, content |-> WriteAtStart(note_file.content, cbody[p])]
    /\ pc' = [pc EXCEPT ![p] = "closed"]
    /\ UNCHANGED <<cbody, textVars, vaultVars, restVars>>

-----------------------------------------------------------------------------
(* SpecDur: utils/helpers.py format_duration applied to a duration *)

\* longest duration in whole seconds: past one hour, one minute and five
\* seconds
MaxSeconds == 3670

\* divmod(a, b) for a >= 0 and b > 0
DivMod(a, b) == <<a \div b, a % b>>

\* int(seconds) of a non-negative float: the fraction is dropped
ToInt(x) == x.num \div x.den

\* format_duration with the hour taken out of the seconds that are left
\* after the minutes instead of out of the minutes
FormatDurationHoursOfSeconds(s) ==
    LET ms == DivMod(ToInt(s), 60)
        hm == DivMod(ms[2], 60)
    IN  IF hm[1] > 0
        THEN ToString(hm[1]) \o "h " \o ToString(hm[2]) \o "m " \o ToString(ms[2]) \o "s"
        ELSE IF ms[1] > 0
             THEN ToString(ms[1]) \o "m " \o ToString(ms[2]) \o "s"
             ELSE ToString(ms[2]) \o "s"

\* format_duration, lines 39-49
FormatDuration(s) ==
    LET ms == DivMod(ToInt(s), 60)
        hm == DivMod(ms[1], 60)
    IN  IF hm[1] > 0
        THEN ToString(hm[1]) \o "h " \o ToString(hm[2]) \o "m " \o ToString(ms[2]) \o "s"
        ELSE IF hm[2] > 0
             THEN ToString(hm[2]) \o "m " \o ToString(ms[2]) \o "s"
             ELSE ToString(ms[2]) \o "s"

\* whole durations and durations with half a second more
Durations ==
    { [num |-> n, den |-> 1] : n \in 0..MaxSeconds } \cup
    { [num |-> 2 * n + 1, den |-> 2] : n \in 0..MaxSeconds }

DurIdle ==
    /\ seconds = [num |-> 0, den |-> 1]
    /\ formatted = "idle"

DurInit ==
    /\ seconds \in Durations
    /\ formatted = ""

CallFormatDuration ==
    /\ formatted = ""
    /\ formatted' = FormatDuration(seconds)
    /\ UNCHANGED <<seconds, textVars, vaultVars, concVars, ollamaVars, recVars, procVars>>

-----------------------------------------------------------------------------
(* SpecOllama: the transcribe and process commands of main.py up to the  *)
(* point where ensure_ollama_ready hands control back.  Line 62 of       *)
(* ensure_ollama_ready calls ensure_ollama_ready itself, so lines 63-71   *)
(* (the model pull) and the command bodies after the call never run.     *)
(* check_whisper_model (lines 46-53) has no caller.                       *)

\* frames the Python stack holds before the interpreter raises
\* RecursionError (sys.getrecursionlimit(), scaled down)
MaxDepth == 30

Commands == {"transcribe", "process"}

notOllamaVars == <<textVars, vaultVars, concVars, durVars, recVars, procVars>>

OllamaIdle ==
    /\ command = "none"
    /\ server_up = FALSE
    /\ depth = 0
    /\ opc = "idle"

\* a command was invoked; the server answers or does not
OllamaInit ==
    /\ command \in Commands
    /\ server_up \in BOOLEAN
    /\ depth = 0
    /\ opc = "cli"

\* lines 189 and 226: the command calls ensure_ollama_ready
InvokeEnsure ==
    /\ opc = "cli"
    /\ opc' = "ensure"
    /\ depth' = 1
    /\ UNCHANGED <<command, server_up, notOllamaVars>>

\* lines 57-60: check_ollama_server gives False and sys.exit(1) unwinds
\* every frame
EnsureServerDown ==
    /\ opc = "ensure"
    /\ ~server_up
    /\ opc' = "exit1"
    /\ depth' = 0
    /\ UNCHANGED <<command, server_up, notOllamaVars>>

\* lines 57 and 62: check_ollama_server gives True and the function calls
\* itself
EnsureRecurse ==
    /\ opc = "ensure"
    /\ server_up
    /\ depth < MaxDepth
    /\ depth' = depth + 1
    /\ UNCHANGED <<command, server_up, opc, notOllamaVars>>

\* line 62 with the stack full: RecursionError unwinds every frame and the
\* command; main (lines 255-262) reports it and exits with status 1
EnsureRecursionError ==
    /\ opc = "ensure"
    /\ server_up
    /\ depth = MaxDepth
    /\ opc' = "RecursionError"
    /\ depth' = 0
    /\ UNCHANGED <<command, server_up, notOllamaVars>>

\* the server stops answering while the command runs
ServerStops ==
    /\ opc = "ensure"
    /\ server_up
    /\ server_up' = FALSE
    /\ UNCHANGED <<command, depth, opc, notOllamaVars>>

-----------------------------------------------------------------------------
(* SpecRec: audio/recorder.py, one AudioRecorder driven by a caller that  *)
(* makes start_recording and stop_recording calls one after another,      *)
(* while the recording thread and the stream callback run on their own.   *)

\* most start_recording and stop_recording calls in a run
MaxRecCalls == 8
\* most chunks the stream delivers to one recording
MaxChunks == 3

notRecVars == <<textVars, vaultVars, concVars, durVars, ollamaVars, procVars>>

NoRecCall == [call |-> "none", was_recording |-> FALSE, raised |-> "", saved |-> FALSE]

\* the record of a recorder call
RecCall(call, raised, saved) ==
    [call |-> call, was_recording |-> is_recording, raised |-> raised, saved |-> saved]

RecIdle ==
    /\ is_recording = FALSE
    /\ recording_thread = "idle"
    /\ audio_queue = 0
    /\ rec_last = NoRecCall
    /\ nrec = 0

\* __init__, lines 15-29
RecInit ==
    /\ is_recording = FALSE
    /\ recording_thread = "none"
    /\ audio_queue = 0
    /\ rec_last = NoRecCall
    /\ nrec = 0

\* start_recording, lines 39-40
StartRecordingRaises ==
    /\ nrec < MaxRecCalls
    /\ is_recording
    /\ rec_last' = RecCall("start", "RuntimeError", FALSE)
    /\ nrec' = nrec + 1
    /\ UNCHANGED <<is_recording, recording_thread, audio_queue, notRecVars>>

\* start_recording, lines 42-57: a fresh queue and a started thread
StartRecordingStarts ==
    /\ nrec < MaxRecCalls
    /\ ~is_recording
    /\ is_recording' = TRUE
    /\ audio_queue' = 0
    /\ recording_thread' = "running"
    /\ rec_last' = RecCall("start", "", FALSE)
    /\ nrec' = nrec + 1
    /\ UNCHANGED notRecVars

\* _audio_callback, lines 31-35, called by the stream while the thread holds
\* it open
AudioCallback ==
    /\ recording_thread = "running"
    /\ audio_queue < MaxChunks
    /\ audio_queue' = audio_queue + 1
    /\ UNCHANGED <<is_recording, recording_thread, rec_last, nrec, notRecVars>>

\* lines 47-54: the stream cannot be opened or breaks, and the thread ends
\* with self.recording still set
StreamFails ==
    /\ recording_thread = "running"
    /\ recording_thread' = "dead"
    /\ UNCHANGED <<is_recording, audio_queue, rec_last, nrec, notRecVars>>

\* stop_recording, lines 61-62
StopRecordingRaises ==
    /\ nrec < MaxRecCalls
    /\ ~is_recording
    /\ rec_last' = RecCall("stop", "RuntimeError", FALSE)
    /\ nrec' = nrec + 1
    /\ UNCHANGED <<is_recording, recording_thread, audio_queue, notRecVars>>

\* stop_recording with the emptiness of the queue tested before the flag is
\* cleared and the thread joined
StopRecordingNoDataEarly ==
    /\ nrec < MaxRecCalls
    /\ is_recording
    /\ audio_queue = 0
    /\ rec_last' = RecCall("stop", "RuntimeError", FALSE)
    /\ nrec' = nrec + 1
    /\ UNCHANGED <<is_recording, recording_thread, audio_queue, notRecVars>>

\* stop_recording, lines 64-79: the flag is cleared, the thread is joined
\* (it leaves its loop at line 53 or has died already), the queue is found
\* empty and RuntimeError("No audio data recorded") is raised
StopRecordingNoData ==
    /\ nrec < MaxRecCalls
    /\ is_recording
    /\ audio_queue = 0
    /\ is_recording' = FALSE
    /\ recording_thread' = "joined"
    /\ rec_last' = RecCall("stop", "RuntimeError", FALSE)
    /\ nrec' = nrec + 1
    /\ UNCHANGED <<audio_queue, notRecVars>>

\* stop_recording, lines 64-93: the flag is cleared, the thread is joined,
\* the queue (with what the stream still delivered before it closed) is
\* drained into the WAV file and the path is returned
StopRecordingSaves ==
    /\ nrec < MaxRecCalls
    /\ is_recording
    /\ \E late \in 0..1 :
          /\ late = 1 => recording_thread = "running"
          /\ audio_queue + late > 0
    /\ is_recording' = FALSE
    /\ recording_thread' = "joined"
    /\ audio_queue' = 0
    /\ rec_last' = RecCall("stop", "", TRUE)
    /\ nrec' = nrec + 1
    /\ UNCHANGED notRecVars

-----------------------------------------------------------------------------
(* SpecProc: one process_audio call (main.py 84-155) on a source audio    *)
(* file and a vault.  ppc is the step the call is at: "start",            *)
(* "transcribe", "enhance", "create", "unlink", and at the end "done"     *)
(* (the note path is returned), "exit1" (typer.Exit(1) of lines 128-131)  *)
(* or "raised" (an exception leaves process_audio).                       *)

notProcVars == <<textVars, concVars, durVars, ollamaVars, recVars>>

ProcIdle ==
    /\ ppc = "idle"
    /\ delete_flag = FALSE
    /\ stt_calls = 0
    /\ failure = "none"

\* the vault may or may not have its folders yet; the audio file may be gone
ProcInit ==
    /\ ppc = "start"
    /\ delete_flag \in BOOLEAN
    /\ stt_calls = 0
    /\ failure = "none"
    /\ now \in StartDates
    /\ clock = 0
    /\ diary_dir \in BOOLEAN
    /\ \E offsets \in EarlierNotes :
          /\ ~diary_dir => offsets = {}
          /\ diary = [n \in { NoteName(MinusDays(now, i)) : i \in offsets } |-> EarlierBody]
    /\ attachments = <<>>
    /\ last = NoCall
    /\ ncalls = 0
    /\ ndays = 0
    /\ source_audio \in {SourceFile, Missing}

\* lines 107-120: the three components are built; the note generator makes
\* the diary folder (note_generator.py 33-34)
ProcConstruct ==
    /\ ppc = "start"
    /\ ppc' = "transcribe"
    /\ diary_dir' = TRUE
    /\ UNCHANGED <<delete_flag, stt_calls, failure, now, clock, diary, attachments,
                   last, ncalls, ndays, source_audio, notProcVars>>

\* lines 107-114: a constructor raises (a model that cannot be loaded)
\* before the note generator is built
ProcConstructRaises ==
    /\ ppc = "start"
    /\ ppc' = "raised"
    /\ failure' = "init"
    /\ UNCHANGED <<delete_flag, stt_calls, vaultVars, notProcVars>>

\* whisper.py 118-119: the audio file is not there; process_audio turns the
\* FileNotFoundError into typer.Exit(1) (lines 128-131)
ProcAudioMissing ==
    /\ ppc = "transcribe"
    /\ ~source_audio.exists
    /\ ppc' = "exit1"
    /\ failure' = "audio_missing"
    /\ UNCHANGED <<delete_flag, stt_calls, vaultVars, notProcVars>>

\* whisper.py 128-129: loading the audio raises before the engine is called
ProcLoadFails ==
    /\ ppc = "transcribe"
    /\ source_audio.exists
    /\ ppc' = "exit1"
    /\ failure' = "load"
    /\ UNCHANGED <<delete_flag, stt_calls, vaultVars, notProcVars>>

\* a transcription that calls the engine a second time after it failed
ProcSttFailsAfterRetry ==
    /\ ppc = "transcribe"
    /\ source_audio.exists
    /\ stt_calls' = stt_calls + 2
    /\ ppc' = "exit1"
    /\ failure' = "stt"
    /\ UNCHANGED <<delete_flag, vaultVars, notProcVars>>

\* whisper.py 135 raises: 155-157 wrap it in RuntimeError and main.py
\* 128-131 turn that into typer.Exit(1)
ProcSttFails ==
    /\ ppc = "transcribe"
    /\ source_audio.exists
    /\ stt_calls' = stt_calls + 1
    /\ ppc' = "exit1"
    /\ failure' = "stt"
    /\ UNCHANGED <<delete_flag, vaultVars, notProcVars>>

\* whisper.py 126-154 and main.py 125-127: the transcription comes back
ProcTranscribes ==
    /\ ppc = "transcribe"
    /\ source_audio.exists
    /\ stt_calls' = stt_calls + 1
    /\ ppc' = "enhance"
    /\ UNCHANGED <<delete_flag, failure, vaultVars, notProcVars>>

\* line 135: enhance returns
ProcEnhances ==
    /\ ppc = "enhance"
    /\ ppc' = "create"
    /\ UNCHANGED <<delete_flag, stt_calls, failure, vaultVars, notProcVars>>

\* line 135: enhance raises (a missing tokenizer resource) and nothing in
\* process_audio catches it
ProcEnhanceRaises ==
    /\ ppc = "enhance"
    /\ ppc' = "raised"
    /\ failure' = "enhance"
    /\ UNCHANGED <<delete_flag, stt_calls, vaultVars, notProcVars>>

\* the entries process_audio builds (lines 141-147): all five keys
ProcEntries == { e \in Entries : "duration" \in DOMAIN e }

\* the only recording there is: the source audio file
Recording == CHOOSE r \in Recordings : TRUE

\* a process_audio that hands the audio to create_note whatever the flag
RecordingPathAlways(flag) == Recording

\* line 148: recording_path = audio_path unless the audio is to be deleted
RecordingPath(flag) == IF flag THEN None ELSE Recording

\* lines 140-149: create_note raises and the exception leaves process_audio
ProcCreateNoteRaises ==
    /\ ppc = "create"
    /\ \E time_str \in Times, entry \in ProcEntries :
          \/ CreateNoteRelatedRaises(time_str, entry, RecordingPath(delete_flag))
          \/ CreateNoteCopyRaises(time_str, entry, RecordingPath(delete_flag))
          \/ CreateNoteOpenRaises(time_str, entry, RecordingPath(delete_flag))
    /\ ppc' = "raised"
    /\ failure' = "create_note"
    /\ UNCHANGED <<delete_flag, stt_calls, now, ncalls, ndays, diary_dir, source_audio,
                   notProcVars>>

\* lines 140-149: create_note writes the note
ProcCreateNoteWrites ==
    /\ ppc = "create"
    /\ \E time_str \in Times, entry \in ProcEntries :
          CreateNoteWrites(time_str, entry, RecordingPath(delete_flag))
    /\ ppc' = IF delete_flag THEN "unlink" ELSE "done"
    /\ UNCHANGED <<delete_flag, stt_calls, failure, now, ncalls, ndays, diary_dir,
                   source_audio, notProcVars>>

\* lines 152-155: audio_path.unlink() and the note path is returned
ProcUnlink ==
    /\ ppc = "unlink"
    /\ source_audio' = Missing
    /\ ppc' = "done"
    /\ UNCHANGED <<delete_flag, stt_calls, failure, now, clock, diary, attachments,
                   last, ncalls, ndays, diary_dir, notProcVars>>

-----------------------------------------------------------------------------
(* The specifications *)

Init == TextIdle /\ VaultInit /\ ConcIdle /\ DurIdle /\ OllamaIdle /\ RecIdle /\ ProcIdle
Next == CreateNote \/ NextDay \/ RemoveDiaryFolder
Spec == Init /\ [][Next]_vars

InitText == TextInit /\ VaultIdle /\ ConcIdle /\ DurIdle /\ OllamaIdle /\ RecIdle /\ ProcIdle
NextText == CallCleanText \/ CallDetectEmotion \/ CallEnhance
SpecText == InitText /\ [][NextText]_vars

InitConc == TextIdle /\ VaultIdle /\ ConcInit /\ DurIdle /\ OllamaIdle /\ RecIdle /\ ProcIdle
NextConc == \E p \in Calls : ConcOpen(p) \/ ConcWrite(p)
SpecConc == InitConc /\ [][NextConc]_vars

InitDur == TextIdle /\ VaultIdle /\ ConcIdle /\ DurInit /\ OllamaIdle /\ RecIdle /\ ProcIdle
NextDur == CallFormatDuration
SpecDur == InitDur /\ [][NextDur]_vars

InitOllama == TextIdle /\ VaultIdle /\ ConcIdle /\ DurIdle /\ OllamaInit /\ RecIdle /\ ProcIdle
NextOllama ==
    \/ InvokeEnsure
    \/ EnsureServerDown
    \/ EnsureRecurse
    \/ EnsureRecursionError
    \/ ServerStops
SpecOllama == InitOllama /\ [][NextOllama]_vars

InitRec == TextIdle /\ VaultIdle /\ ConcIdle /\ DurIdle /\ OllamaIdle /\ RecInit /\ ProcIdle
NextRec ==
    \/ StartRecordingRaises
    \/ StartRecordingStarts
    \/ AudioCallback
    \/ StreamFails
    \/ StopRecordingRaises
    \/ StopRecordingNoData
    \/ StopRecordingSaves
SpecRec == InitRec /\ [][NextRec]_vars

InitProc == TextIdle /\ ConcIdle /\ DurIdle /\ OllamaIdle /\ RecIdle /\ ProcInit
NextProc ==
    \/ ProcConstruct
    \/ ProcConstructRaises
    \/ ProcAudioMissing
    \/ ProcLoadFails
    \/ ProcSttFails
    \/ ProcTranscribes
    \/ ProcEnhances
    \/ ProcEnhanceRaises
    \/ ProcCreateNoteRaises
    \/ ProcCreateNoteWrites
    \/ ProcUnlink
    \/ RemoveDiaryFolder
SpecProc == InitProc /\ [][NextProc]_vars

-----------------------------------------------------------------------------
(* Properties of the text functions, checked under SpecText *)

CeilDiv(n, k) == (n + k - 1) \div k

\* C5: enhance over N sentences gives ceil(N/3) paragraphs, the k-th being the
\* space-joined sentences 3k-2 .. min(3k, N) in order (so all but possibly the
\* last hold exactly 3); no sentence gives no paragraph; and the metadata has
\* paragraph_count = len(paragraphs) and sentence_count >= paragraph_count.
C5_ParagraphsOfThree ==
    op = "enhance" =>
        LET N == Len(enhanced.sentences)
            P == enhanced.paragraphs
        IN  /\ Len(P) = CeilDiv(N, 3)
            /\ \A k \in 1..Len(P) :
                  P[k] = JoinSpace(SubSeq(enhanced.sentences, 3 * k - 2,
                                          IF 3 * k <= N THEN 3 * k ELSE N))
            /\ N = 0 => P = <<>>
            /\ enhanced.metadata.sentence_count = N
            /\ enhanced.metadata.paragraph_count = Len(P)
            /\ enhanced.metadata.sentence_count >= enhanced.metadata.paragraph_count

\* enhance has met five sentences: a full paragraph and a trailing one of two
C5_Witness ==
    /\ op = "enhance"
    /\ Len(enhanced.sentences) = 5
    /\ Len(enhanced.paragraphs) = 2

\* a score that is a number of [0, 1]
InUnit(r) == r.den > 0 /\ 0 <= r.num /\ r.num <= r.den

\* C6: _detect_emotion returns three scores, each within [0, 1], over one
\* denominator and with numerators summing to it (so they sum to 1); for a
\* text with no word the scores are exactly 0, 0 and 1.
C6_EmotionScoresSumToOne ==
    op = "emotion" =>
        /\ InUnit(emotions.positive) /\ InUnit(emotions.negative) /\ InUnit(emotions.neutral)
        /\ emotions.positive.den = emotions.neutral.den
        /\ emotions.negative.den = emotions.neutral.den
        /\ emotions.positive.num + emotions.negative.num + emotions.neutral.num
              = emotions.neutral.den
        /\ (\A i \in 1..Len(text) : IsSpace(text[i])) =>
              /\ emotions.positive.num = 0
              /\ emotions.negative.num = 0
              /\ emotions.neutral.num = emotions.neutral.den

\* a text with a positive and a negative word has been scored
C6_Witness ==
    /\ op = "emotion"
    /\ emotions.positive.num > 0
    /\ emotions.negative.num > 0
    /\ emotions.neutral.den >= 2

\* text has a whitespace-delimited token whose lower-cased form is in lexicon
HasToken(lexicon) ==
    \E i \in 1..Len(text), j \in 1..Len(text) :
        /\ i <= j
        /\ i = 1 \/ IsSpace(text[i - 1])
        /\ j = Len(text) \/ IsSpace(text[j + 1])
        /\ \A k \in i..j : ~IsSpace(text[k])
        /\ Lower(SubSeq(text, i, j)) \in lexicon

\* C7: positive > 0 exactly when some lower-cased whitespace-delimited token
\* of the text is a positive word, negative > 0 exactly when some such token
\* is a negative word; the text "I am happy today" scores positive > 0.
C7_ScoresFollowLexicon ==
    op = "emotion" =>
        /\ emotions.positive.num > 0 <=> HasToken(positive_words)
        /\ emotions.negative.num > 0 <=> HasToken(negative_words)
        /\ text = TestEmotionText => emotions.positive.num > 0

\* a capitalised negative word was counted and no positive word was found
C7_Witness ==
    /\ op = "emotion"
    /\ HasToken(negative_words)
    /\ \E i \in 1..Len(text) : text[i] = "S"
    /\ emotions.negative.num > 0
    /\ emotions.positive.num = 0

\* index in the cleaned text of the first character of its k-th sentence
RECURSIVE SentenceStart(_, _)
SentenceStart(sents, k) ==
    IF k = 1 THEN 1 ELSE SentenceStart(sents, k - 1) + Len(sents[k - 1]) + 1

SentenceStarts == { SentenceStart(sentences, k) : k \in 1..Len(sentences) }

\* C8 as stated: in the output of _clean_text no whitespace stands right
\* before any of . , ! ? and exactly one space follows each of them.
C8_Original ==
    op = "clean" =>
        \A i \in 1..Len(cleaned) :
            IsPunct(cleaned[i]) =>
                /\ i > 1 => ~IsSpace(cleaned[i - 1])
                /\ i < Len(cleaned)
                /\ cleaned[i + 1] = " "
                /\ i + 2 <= Len(cleaned) => ~IsSpace(cleaned[i + 2])

\* C8 amended: in the output of _clean_text whitespace stands right before one
\* of . , ! ? only where two sentences were joined (the tokenizer ended a
\* sentence directly before a ! or ?), and whitespace that follows one of
\* those characters is exactly one space with a non-whitespace character
\* after it; the mark may also be followed directly by a character or end
\* the text, since no space is inserted.
C8_PunctuationSpacing ==
    op = "clean" =>
        \A i \in 1..Len(cleaned) :
            IsPunct(cleaned[i]) =>
                /\ (i > 1 /\ IsSpace(cleaned[i - 1])) => i \in SentenceStarts
                /\ (i < Len(cleaned) /\ IsSpace(cleaned[i + 1])) =>
                      /\ cleaned[i + 1] = " "
                      /\ i + 2 <= Len(cleaned)
                      /\ ~IsSpace(cleaned[i + 2])

\* whitespace before a punctuation mark was removed and a run of whitespace
\* after one was cut to a single space
C8_Witness ==
    /\ op = "clean"
    /\ \E i \in 2..Len(text) : IsPunct(text[i]) /\ IsSpace(text[i - 1])
    /\ \E i \in 1..(Len(text) - 2) :
          IsPunct(text[i]) /\ IsSpace(text[i + 1]) /\ IsSpace(text[i + 2])
    /\ \E i \in 1..(Len(cleaned) - 1) : IsPunct(cleaned[i]) /\ cleaned[i + 1] = " "

\* C9: the output of _clean_text has no leading or trailing whitespace and no
\* two whitespace characters in a row, each of its sentences starts with a
\* character that upper-casing leaves alone, "" gives "", and
\* "  hello,  world!  " gives "Hello, world!".
C9_TrimmedAndCapitalised ==
    op = "clean" =>
        /\ cleaned /= <<>> => ~IsSpace(cleaned[1]) /\ ~IsSpace(cleaned[Len(cleaned)])
        /\ \A i \in 1..(Len(cleaned) - 1) : ~(IsSpace(cleaned[i]) /\ IsSpace(cleaned[i + 1]))
        /\ \A i \in SentenceStarts : i <= Len(cleaned) /\ cleaned[i] = Upper(cleaned[i])
        /\ Len(sentences) > 0 =>
              SentenceStart(sentences, Len(sentences)) + Len(sentences[Len(sentences)])
                 = Len(cleaned) + 1
        /\ text = <<>> => cleaned = <<>>
        /\ text = TestCleanText => cleaned = TestCleanResult

\* a text of two sentences in lower case, with whitespace to trim, was cleaned
C9_Witness ==
    /\ op = "clean"
    /\ Len(sentences) = 2
    /\ text /= <<>> /\ IsSpace(text[1])
    /\ \A k \in 1..2 : cleaned[SentenceStart(sentences, k)] = "H"

-----------------------------------------------------------------------------
(* Properties of create_note, checked under Spec *)

\* the related-entries block the specification asks for: a link for each of
\* D-1 .. D-7, by calendar subtraction, whose note exists
RECURSIVE ExpectedFrom(_, _, _)
ExpectedFrom(d, files, i) ==
    IF i > 7 THEN <<>>
    ELSE (IF NoteName(MinusDays(d, i)) \in files THEN <<MinusDays(d, i)>> ELSE <<>>)
         \o ExpectedFrom(d, files, i + 1)

ExpectedRelated(d, files) == RelatedBlock(ExpectedFrom(d, files, 1))

\* the note of the most recent call, if the call wrote it with that audio link
NoteOfLastCall(audio_link) ==
    RenderNote(last.date, last.time, last.entry,
               ExpectedRelated(last.date, last.files_before), audio_link)

\* part occurs in body as a run of consecutive atoms
ContainsSeq(body, part) ==
    \E i \in 0..(Len(body) - Len(part)) :
        \A k \in 1..Len(part) : body[i + k] = part[k]

\* C1: on every day D, the first days of a month included, create_note
\* completes and the note's related-entries block links exactly the dates
\* among D-1 .. D-7 (calendar subtraction) whose note exists.  Calls whose
\* audio copy failed are left aside, and so are vaults whose diary folder was
\* removed.
C1_Original ==
    (last.called /\ ~last.copy_failed /\ diary_dir) =>
        /\ last.result = "ok"
        /\ NoteName(last.date) \in DOMAIN diary
        /\ diary[NoteName(last.date)] = NoteOfLastCall(last.audio_link)

\* C2: after create_note calls on the current day the diary folder holds the
\* day's note, <YYYY-MM-DD>.md, and its body is the rendering of the most
\* recent call (the diary folder not having been removed).
C2_Original ==
    (last.called /\ last.date = now /\ diary_dir) =>
        /\ NoteName(now) \in DOMAIN diary
        /\ \E link \in {<<"No audio recording">>, last.audio_link} :
              diary[NoteName(now)] = NoteOfLastCall(link)

\* C3: when the audio copy of a create_note call fails, the call still writes
\* the day's note (the diary folder not having been removed).
C3_Original ==
    (last.called /\ last.copy_failed /\ diary_dir) =>
        /\ NoteName(last.date) \in DOMAIN diary
        /\ \E epoch \in 0..clock :
              \E link \in {<<"No audio recording">>,
                           AudioLink(AudioName(epoch, last.recording))} :
                 diary[NoteName(last.date)] = NoteOfLastCall(link)

\* C10: the note a create_note call has written holds the entry's text
\* verbatim and, for each topic t of the entry, the tag "#" directly followed
\* by t (the diary folder not having been removed since).
C10_Original ==
    (last.called /\ last.result = "ok" /\ diary_dir) =>
        /\ NoteName(last.date) \in DOMAIN diary
        /\ LET body == diary[NoteName(last.date)]
           IN  /\ ContainsSeq(body, last.entry.text)
               /\ \A k \in 1..Len(last.entry.topics) :
                     ContainsSeq(body, <<"#", last.entry.topics[k]>>)

\* reading a note back by its section structure: the first place at or after
\* from where part stands in body, 0 if there is none
RECURSIVE IndexOf(_, _, _)
IndexOf(body, part, from) ==
    IF from + Len(part) - 1 > Len(body) THEN 0
    ELSE IF SubSeq(body, from, from + Len(part) - 1) = part THEN from
    ELSE IndexOf(body, part, from + 1)

\* the rest of the first line that starts with label
ReadLine(body, label) ==
    LET i == IndexOf(body, <<"\n", label>>, 1)
        e == IndexOf(body, <<"\n">>, i + 2)
    IN  SubSeq(body, i + 2, e - 1)

ContentHeading == <<"\n", "#", "#", " Content", "\n">>
RelatedHeading == <<"\n", "#", "#", " Related Entries", "\n">>

\* the text between the first "## Content" heading line and the first
\* "## Related Entries" heading line after it, less the line break that ends
\* the text and the empty line the template puts before the heading
ReadContent(body) ==
    LET c == IndexOf(body, ContentHeading, 1) + Len(ContentHeading)
        r == IndexOf(body, RelatedHeading, c)
    IN  SubSeq(body, c, r - 2)

\* C11: the note create_note has written from an entry (one with a
\* word_count), read back by its section structure, gives back the entry's
\* text, its topics joined by ", " and its word count.
C11_Original ==
    (last.called /\ last.result = "ok" /\ diary_dir /\ "word_count" \in DOMAIN last.entry) =>
        LET body == diary[NoteName(last.date)]
        IN  /\ ReadContent(body) = last.entry.text
            /\ ReadLine(body, "- Topics: ") = JoinAtoms(last.entry.topics, ", ")
            /\ ReadLine(body, "- Word Count: ") = <<ToString(last.entry.word_count)>>

\* C12: a create_note call made when the diary folder no longer exists
\* recreates the folder and writes the day's note instead of failing.  Calls
\* that fail before the write for another reason (the related-entries lookup
\* or the audio copy raising) are left aside.
C12_Original ==
    (last.called /\ ~last.dir_before /\ last.result \notin {"ValueError", "OSError"}) =>
        /\ last.result = "ok"
        /\ diary_dir
        /\ NoteName(last.date) \in DOMAIN diary

\* the audio artifact a create_note step has copied into attachments/audio
CopiedName == AudioName(clock', last'.recording)

\* C15: a create_note call, whether it returns or raises, leaves every note
\* of another day as it was and the source audio file in place with its
\* content; the only files it creates or rewrites are today's note and the
\* audio artifact it copies under attachments/audio, which holds the
\* source's content.
C15_CreateNoteFrame ==
    [][ncalls' = ncalls + 1 =>
          /\ DOMAIN diary \subseteq DOMAIN diary'
          /\ DOMAIN diary' \subseteq DOMAIN diary \cup {NoteName(now)}
          /\ \A n \in DOMAIN diary : n /= NoteName(now) => diary'[n] = diary[n]
          /\ source_audio' = source_audio
          /\ source_audio'.exists
          /\ DOMAIN attachments \subseteq DOMAIN attachments'
          /\ DOMAIN attachments' \subseteq DOMAIN attachments \cup {CopiedName}
          /\ \A a \in DOMAIN attachments : a /= CopiedName => attachments'[a] = attachments[a]
          /\ \A a \in DOMAIN attachments' :
                (a \notin DOMAIN attachments \/ attachments'[a] /= attachments[a])
                    => /\ last'.recording /= None
                       /\ attachments'[a] = source_audio.content
    ]_vars

\* a call with a recording has written today's note beside the note of an
\* earlier day and copied the audio
C15_Witness ==
    /\ last.called /\ last.result = "ok" /\ last.recording /= None
    /\ last.files_before /= {} /\ NoteName(last.date) \notin last.files_before
    /\ \A n \in last.files_before : n \in DOMAIN diary /\ diary[n] = EarlierBody
    /\ NoteName(last.date) \in DOMAIN diary
    /\ source_audio = SourceFile
    /\ \E a \in DOMAIN attachments : attachments[a] = SourceFile.content

-----------------------------------------------------------------------------
(* Property of the racing writers, checked under SpecConc *)

\* C4: once both calls have closed the file, it holds the complete content
\* of one of them.
C4_Original ==
    (\A p \in Calls : pc[p] = "closed") =>
        /\ note_file.exists
        /\ \E p \in Calls : note_file.content = cbody[p]

-----------------------------------------------------------------------------
(* Property of format_duration, checked under SpecDur *)

\* C14: for a non-negative duration, with f the whole seconds of it,
\* h = f div 3600, m = (f mod 3600) div 60 and sec = f mod 60 satisfy m < 60,
\* sec < 60 and h*3600 + m*60 + sec = f, and the string returned is
\* "Hh Mm Ss" when h > 0, "Mm Ss" when h = 0 and m > 0, and "Ss" otherwise;
\* 65 gives "1m 5s", 3665 gives "1h 1m 5s" and 45 gives "45s".
C14_FormatDurationDecomposes ==
    formatted \notin {"", "idle"} =>
        LET f == seconds.num \div seconds.den
            h == f \div 3600
            m == (f % 3600) \div 60
            sec == f % 60
            H == ToString(h) \o "h"
            M == ToString(m) \o "m"
            S == ToString(sec) \o "s"
        IN  /\ m < 60
            /\ sec < 60
            /\ h * 3600 + m * 60 + sec = f
            /\ h > 0 => formatted = H \o " " \o M \o " " \o S
            /\ (h = 0 /\ m > 0) => formatted = M \o " " \o S
            /\ (h = 0 /\ m = 0) => formatted = S
            /\ f = 65 => formatted = "1m 5s"
            /\ f = 3665 => formatted = "1h 1m 5s"
            /\ f = 45 => formatted = "45s"

C14_Witness ==
    /\ seconds = [num |-> 7331, den |-> 2]
    /\ formatted = "1h 1m 5s"

-----------------------------------------------------------------------------
(* Property of ensure_ollama_ready, checked under SpecOllama *)

\* C16: ensure_ollama_ready terminates, and with the server reachable it
\* returns to the command, which goes on to load the configuration: a
\* command ends inside ensure_ollama_ready only when the server is not
\* reachable (exit status 1).
C16_Original ==
    opc \in {"exit1", "RecursionError"} => (opc = "exit1" /\ ~server_up)

-----------------------------------------------------------------------------
(* Property of AudioRecorder, checked under SpecRec *)

\* C18: is_recording() is false before any call; a start_recording call made
\* while recording raises RuntimeError and leaves the recorder recording; a
\* stop_recording call made while not recording raises RuntimeError and
\* leaves it not recording; after a stop_recording call made while
\* recording, whether it returned the saved path or raised for want of audio
\* data, is_recording() is false and the recording thread has been joined.
C18_RecorderCalls ==
    /\ rec_last.call = "none" => ~is_recording
    /\ (rec_last.call = "start" /\ rec_last.was_recording) =>
          rec_last.raised = "RuntimeError" /\ is_recording
    /\ (rec_last.call = "stop" /\ ~rec_last.was_recording) =>
          rec_last.raised = "RuntimeError" /\ ~is_recording
    /\ (rec_last.call = "stop" /\ rec_last.was_recording) =>
          /\ ~is_recording
          /\ recording_thread = "joined"
          /\ rec_last.saved \/ rec_last.raised = "RuntimeError"

\* a stop_recording call made while recording has raised for want of audio
\* data
C18_Witness ==
    /\ rec_last.call = "stop" /\ rec_last.was_recording
    /\ rec_last.raised = "RuntimeError" /\ ~rec_last.saved
    /\ ~is_recording /\ recording_thread = "joined"

-----------------------------------------------------------------------------
(* Properties of process_audio, checked under SpecProc *)

\* C13: when the speech-to-text call fails inside process_audio, the engine
\* has been called exactly once, the invocation has ended in error, and no
\* later step has run: create_note was not called, no note of today and no
\* audio copy is in the vault, and the source audio file is still there.
C13_TranscriptionFailureIsFatal ==
    failure = "stt" =>
        /\ stt_calls = 1
        /\ ppc = "exit1"
        /\ last = NoCall
        /\ NoteName(now) \notin DOMAIN diary
        /\ attachments = <<>>
        /\ source_audio = SourceFile

C13_Witness ==
    /\ failure = "stt" /\ ppc = "exit1" /\ stt_calls = 1
    /\ delete_flag /\ diary_dir
    /\ source_audio.exists

\* the states C17 allows
C17_States ==
    /\ delete_flag => attachments = <<>>
    /\ failure \in {"load", "stt", "enhance", "create_note"} => source_audio = SourceFile
    /\ (~delete_flag /\ ppc = "done") =>
          /\ source_audio = SourceFile
          /\ \E a \in DOMAIN attachments :
                /\ attachments[a] = SourceFile.content
                /\ last.audio_link = AudioLink(a)

\* the steps C17 allows
C17_Steps ==
    /\ source_audio' /= source_audio =>
          /\ delete_flag
          /\ last.result = "ok"
          /\ NoteName(now) \in DOMAIN diary \/ ~diary_dir
          /\ ppc' = "done"
          /\ ~source_audio'.exists
    /\ ~delete_flag => source_audio' = source_audio

\* C17: with delete_audio_after_processing set, the source audio is deleted
\* only after create_note has written the note, and no copy of the audio is
\* put in the vault; when transcription, enhancement or note creation fails
\* the source audio is still there.  With the flag unset the source audio is
\* never deleted, and a process_audio that returns has put a copy of it in
\* the vault.
C17_DeleteAfterNote == [](C17_States) /\ [][C17_Steps]_vars

C17_Witness ==
    /\ delete_flag /\ ppc = "done"
    /\ last.result = "ok" /\ last.recording = None
    /\ NoteName(now) \in DOMAIN diary
    /\ source_audio = Missing
    /\ attachments = <<>>

====
